---------------------------- MODULE Spec2Model ----------------------------
(***************************************************************************)
(* API-VaultGuard: the encrypted vault (lib/storage.ts, lib/crypto.ts),    *)
(* the unlock prompt (AuthScreen), the session controller (Index) and the  *)
(* unlocked view (SecureVault) as one state machine.                       *)
(*                                                                         *)
(* Conventions of the model                                                *)
(*  - a string the code inspects character by character (a password) is a  *)
(*    tuple of one-character strings;                                      *)
(*  - a text produced by JSON.stringify is <<"json", v>>, any other text   *)
(*    is <<"text", s>>; a base64 text produced by btoa is <<"b64", b>>;    *)
(*  - a call that may throw returns [ok |-> BOOLEAN, value |-> ...];       *)
(*  - PBKDF2 and AES-GCM (Web Crypto) are symbolic: a derived key is the   *)
(*    pair it was derived from, a ciphertext records the key and nonce it  *)
(*    was sealed with and whether its authentication tag is intact.        *)
(***************************************************************************)
EXTENDS Integers, Sequences, FiniteSets, TLC

(***************************************************************************)
(* Bounds of the model.                                                    *)
(***************************************************************************)
\* Number of identifiers crypto.randomUUID hands out in one run.
MaxIds == 1
\* Number of saveVaultData calls that may be between encryptData and setItem.
MaxInFlight == 1
\* The same number in the specification that follows the saves of one session.
MaxSessionSaves == 2

\* The values crypto.getRandomValues returns for a salt and for a nonce.
Salts == {"salt1", "salt2"}
Ivs == {"iv1", "iv2"}
\* The values it returns while the application runs (the salt and the nonce
\* of an envelope are read by decryptData alone).
AppSalts == {"salt1"}
AppIvs == {"iv1"}

(***************************************************************************)
(* Characters and passwords.                                               *)
(***************************************************************************)
UpperCase ==
    {"A","B","C","D","E","F","G","H","I","J","K","L","M",
     "N","O","P","Q","R","S","T","U","V","W","X","Y","Z"}
LowerCase ==
    {"a","b","c","d","e","f","g","h","i","j","k","l","m",
     "n","o","p","q","r","s","t","u","v","w","x","y","z"}
Digits == {"0","1","2","3","4","5","6","7","8","9"}
\* The character class of the symbol regular expression.
Symbols ==
    {"!","@","#","$","%","^","&","*","(",")",",",".","?","\"",":",
     "{","}","|","<",">"}

PwStrong == <<"S","t","r","0","n","g","!","P","a","s","s">>
PwNewStrong == <<"N","3","w","S","t","r","0","n","g","!">>
PwWrong1 == <<"w","r","o","n","g","1">>
PwWrong2 == <<"w","r","o","n","g","2">>
PwAbc == <<"a","b","c">>
PwWeakLong == <<"w","r","o","n","g","p","a","s","s","1">>
PwShortMixed == <<"A","b","1","!">>
\* the value of an empty input field and of masterPassword before any unlock
EmptyString == <<>>

\* The passwords a user types in this model.
Passwords ==
    {PwStrong, PwNewStrong, PwWrong1, PwWrong2, PwAbc, PwWeakLong, PwShortMixed}

HasChar(password, class) == \E i \in 1..Len(password) : password[i] \in class

\* the minimum length both password checks use
MinPasswordLength == 8

\* const isLongEnough = password.length >= 8
IsLongEnough(password) == Len(password) >= MinPasswordLength

\* validatePasswordStrength(password).isValid, the same in AuthScreen and in
\* Index.handleAuth
ValidatePasswordStrength(password) ==
    /\ HasChar(password, UpperCase)
    /\ HasChar(password, LowerCase)
    /\ HasChar(password, Digits)
    /\ HasChar(password, Symbols)
    /\ IsLongEnough(password)

(***************************************************************************)
(* Values: undefined, thrown errors, records of the data model.            *)
(***************************************************************************)
\* the JavaScript value undefined, as the value of an optional string field
Undefined == "undefined"
\* localStorage.getItem of an absent key
Null == <<"null">>

Ok(v) == [ok |-> TRUE, value |-> v]
Throw(message) == [ok |-> FALSE, value |-> message]

\* interface ApiKey: the fields the core reads; the other payload fields
\* (provider, apiKey, description, tags, metadata, timestamps) travel with
\* the record unchanged and are left out.
KeyFields == {"id", "name", "expirationDate"}
\* the fields of ApiKey declared with "?": they may hold undefined
OptionalKeyFields == {"expirationDate"}
Names == {"A"}
ExpirationDates == {Undefined, "2030-01-01"}
\* the expiration dates entered in the add dialog in this model
AppExpirationDates == {"2030-01-01"}

SettingsFields == {"clipboardClearTime", "autoLockTime", "darkMode", "showKeyPreview"}

DEFAULT_SETTINGS ==
    [clipboardClearTime |-> 30,
     autoLockTime |-> 15,
     darkMode |-> FALSE,
     showKeyPreview |-> FALSE]

\* the VaultData loadVaultData returns when nothing is stored, and the
\* initial state of SecureVault
EmptyVault == [keys |-> <<>>, settings |-> DEFAULT_SETTINGS, version |-> 1]


(***************************************************************************)
(* JSON, base64 and UTF-8 conversions.                                     *)
(***************************************************************************)
\* o.f in JavaScript: an absent property reads undefined
Read(o, f) == IF f \in DOMAIN o THEN o[f] ELSE Undefined

\* JSON.stringify of one object of optional string fields: a property whose
\* value is undefined is left out of the text
JsonObject(o) ==
    [f \in {g \in DOMAIN o : g \notin OptionalKeyFields \/ o[g] # Undefined} |-> o[f]]

\* the value JSON.stringify writes for a VaultData-shaped object
JsonValue(data) ==
    [f \in DOMAIN data |->
        IF f = "keys"
        THEN [i \in 1..Len(data.keys) |-> JsonObject(data.keys[i])]
        ELSE data[f]]

\* JSON.stringify(data)
JsonStringify(data) == <<"json", JsonValue(data)>>

\* JSON.parse(text): throws a SyntaxError on a text that is not JSON
JsonParse(text) ==
    IF text[1] = "json" THEN Ok(text[2]) ELSE Throw("SyntaxError")

\* btoa(String.fromCharCode(...bytes))
Btoa(bytes) == <<"b64", bytes>>
\* atob(text).split('').map(char => char.charCodeAt(0)): throws on a text
\* that is not base64
Atob(text) ==
    IF text[1] = "b64" THEN Ok(text[2]) ELSE Throw("InvalidCharacterError")

\* new TextEncoder().encode(text)
TextEncode(text) == <<"utf8", text>>
\* a decoder that hands the bytes back undecoded
TextDecodeRaw(bytes) == bytes
\* new TextDecoder().decode(bytes)
TextDecode(bytes) == bytes[2]

(***************************************************************************)
(* lib/crypto.ts                                                           *)
(***************************************************************************)
\* deriveKey: PBKDF2-SHA-256, 100000 iterations, to an AES-GCM 256-bit key
DeriveKey(password, salt) == [password |-> password, salt |-> salt]

\* crypto.subtle.encrypt({name: 'AES-GCM', iv}, key, bytes): ciphertext and tag
AesGcmEncrypt(key, iv, bytes) ==
    [key |-> key, iv |-> iv, plaintext |-> bytes, tag |-> TRUE]

\* crypto.subtle.decrypt({name: 'AES-GCM', iv}, key, data): throws an
\* OperationError unless key and nonce are those of the encryption and the
\* tag is intact
AesGcmDecrypt(key, iv, data) ==
    IF data.key = key /\ data.iv = iv /\ data.tag
    THEN Ok(data.plaintext)
    ELSE Throw("OperationError")

\* encryptData(data, password) with the salt and nonce getRandomValues drew
EncryptData(data, password, salt, iv) ==
    [data |-> Btoa(AesGcmEncrypt(DeriveKey(password, salt), iv, TextEncode(data))),
     salt |-> Btoa(salt),
     iv |-> Btoa(iv)]

\* decryptData(encryptedData, password)
DecryptData(encryptedData, password) ==
    IF ~({"data", "salt", "iv"} \subseteq DOMAIN encryptedData)
    THEN Throw("InvalidCharacterError")
    ELSE
    LET salt == Atob(encryptedData.salt)
        iv == Atob(encryptedData.iv)
        data == Atob(encryptedData.data)
    IN  IF ~salt.ok \/ ~iv.ok \/ ~data.ok
        THEN Throw("InvalidCharacterError")
        ELSE LET decryptedData ==
                     AesGcmDecrypt(DeriveKey(password, salt.value), iv.value, data.value)
             IN  IF decryptedData.ok
                 THEN Ok(TextDecode(decryptedData.value))
                 ELSE decryptedData

(***************************************************************************)
(* lib/storage.ts                                                          *)
(***************************************************************************)
STORAGE_KEY == "secure_vault_data"
SETTINGS_KEY == "vault_settings"
StorageKeys == {STORAGE_KEY, SETTINGS_KEY}

LoadErrorMessage == "Failed to decrypt vault data. Check your master password."

MergeSettingsDefaultsWin(defaults, settings) ==
    [f \in (DOMAIN defaults) \cup (DOMAIN settings) |->
        IF f \in DOMAIN defaults THEN defaults[f] ELSE settings[f]]
\* { ...defaults, ...settings }
MergeSettings(defaults, settings) ==
    [f \in (DOMAIN defaults) \cup (DOMAIN settings) |->
        IF f \in DOMAIN settings THEN settings[f] ELSE defaults[f]]

\* data.settings = { ...DEFAULT_SETTINGS, ...data.settings }
WithMergedSettings(data) ==
    [f \in (DOMAIN data) \cup {"settings"} |->
        IF f = "settings"
        THEN IF "settings" \in DOMAIN data
             THEN MergeSettings(DEFAULT_SETTINGS, data.settings)
             ELSE DEFAULT_SETTINGS
        ELSE data[f]]

\* a save that stores the serialized vault itself
SavedTextPlain(data, masterPassword, salt, iv) == JsonStringify(data)
\* the text saveVaultData stores: JSON.stringify(await encryptData(jsonData, pw))
SavedText(data, masterPassword, salt, iv) ==
    JsonStringify(EncryptData(JsonStringify(data), masterPassword, salt, iv))

\* a load that fails when nothing is stored
LoadVaultDataThrowOnMissing(storedData, masterPassword) == Throw(LoadErrorMessage)
\* loadVaultData(masterPassword), given what localStorage.getItem(STORAGE_KEY)
\* returned
LoadVaultData(storedData, masterPassword) ==
    IF storedData = Null
    THEN Ok(EmptyVault)
    ELSE LET encryptedData == JsonParse(storedData)
         IN  IF ~encryptedData.ok
             THEN Throw(LoadErrorMessage)
             ELSE LET decryptedJson == DecryptData(encryptedData.value, masterPassword)
                  IN  IF ~decryptedJson.ok
                      THEN Throw(LoadErrorMessage)
                      ELSE LET data == JsonParse(decryptedJson.value)
                           IN  IF ~data.ok
                               THEN Throw(LoadErrorMessage)
                               ELSE Ok(WithMergedSettings(data.value))

\* 'Failed to import vault data: ' + error
ImportErrorMessage(cause) == "Failed to import vault data: " \o cause
InvalidBackupMessage == "Error: Invalid backup file format"

\* a parsed JSON value under "keys" that is no array (a string, a number, an
\* object); TLC values carry no type, so one fixed value stands for them
NotAnArray == <<[json |-> "not an array"]>>
\* Array.isArray(value)
IsArray(value) == value # NotAnArray

\* !(!importedData.keys || !Array.isArray(importedData.keys))
HasRecordSequence(importedData) ==
    /\ "keys" \in DOMAIN importedData
    /\ IsArray(importedData.keys)

\* importedData.version || 1
VersionOrOne(importedData) ==
    IF "version" \in DOMAIN importedData /\ importedData.version # 0
    THEN importedData.version
    ELSE 1

\* importVault(backupData, masterPassword)
ImportVault(backupData, masterPassword) ==
    LET encryptedData == JsonParse(backupData)
    IN  IF ~encryptedData.ok
        THEN Throw(ImportErrorMessage(encryptedData.value))
        ELSE LET decryptedJson == DecryptData(encryptedData.value, masterPassword)
             IN  IF ~decryptedJson.ok
                 THEN Throw(ImportErrorMessage(decryptedJson.value))
                 ELSE LET importedData == JsonParse(decryptedJson.value)
                      IN  IF ~importedData.ok
                          THEN Throw(ImportErrorMessage(importedData.value))
                          ELSE IF ~HasRecordSequence(importedData.value)
                          THEN Throw(ImportErrorMessage(InvalidBackupMessage))
                          ELSE Ok([keys |-> importedData.value.keys,
                                   settings |->
                                     WithMergedSettings(importedData.value).settings,
                                   version |-> VersionOrOne(importedData.value)])

\* an export of an empty vault, whatever is stored
ExportVaultEmpty(storedData, masterPassword, exportedAt, salt, iv) ==
    Ok(JsonStringify(EncryptData(JsonStringify(EmptyVault), masterPassword, salt, iv)))
\* exportVault(masterPassword), given what localStorage.getItem(STORAGE_KEY)
\* returned, the time and the salt and nonce encryptData drew
ExportVault(storedData, masterPassword, exportedAt, salt, iv) ==
    LET data == LoadVaultData(storedData, masterPassword)
    IN  IF ~data.ok
        THEN data
        ELSE LET exportData ==
                   [f \in (DOMAIN data.value) \cup {"exportedAt", "version"} |->
                      IF f = "exportedAt" THEN exportedAt
                      ELSE IF f = "version" THEN 1
                      ELSE data.value[f]]
             IN  Ok(JsonStringify(
                      EncryptData(JsonStringify(exportData), masterPassword, salt, iv)))

\* vaultExists(), given the store
VaultExists(store) == store[STORAGE_KEY] # Null

\* clearVault(): the store afterwards
ClearVault(store) == [k \in StorageKeys |-> Null]


(***************************************************************************)
(* State.                                                                  *)
(***************************************************************************)
VARIABLES
    \* window.localStorage: storage key -> stored text or Null
    localStorage,
    \* saveVaultData calls that have captured their data and password and
    \* have not reached localStorage.setItem yet
    inFlight,
    \* Index (useState)
    isAuthenticated, masterPassword, authMode, authError, authLoading,
    failedAttempts,
    \* the handleAuth call waiting in its 500 ms delay: NoCall, or the password
    \* it was given and the authMode and failedAttempts its closure captured
    authCall,
    \* title of the latest toast Index issued
    toast,
    \* SecureVault (useState): meaningful while the component is mounted
    vaultData, loading, error,
    \* the load effect of SecureVault: "unmounted", "effect" (mounted, effects
    \* not run yet), "await" (loadVaultData called, result in loadResult),
    \* "done"
    loadPc, loadResult,
    \* the 500 ms debounce of the auto-save effect is pending
    saveTimer,
    \* the auto-lock timeout is pending
    autoLockTimer,
    \* VaultHeader: the 300 ms delay of handleLock is pending (isLocking)
    lockPending,
    \* number of identifiers crypto.randomUUID has handed out
    nextId,
    \* part of the pending auto-lock timeout has run down since it was started
    autoLockProgress,
    \* SecureVault (useState): the text of the search box
    searchQuery,
    \* the onchange handler of handleImportVault between the choice of the file
    \* and the end of importVault: the file's text and the vaultData names and
    \* masterPassword its closure captured
    importCall,
    \* the system clipboard (navigator.clipboard): the text it holds
    clipboard,
    \* the auto-clear callbacks copyToClipboard has scheduled: the text each
    \* was scheduled for and its delay, whether it waits for its timeout
    \* ("timer") or for the write after its readText ("read"), and what
    \* readText returned
    clearCalls,
    \* number of copyToClipboard calls made
    copies,
    \* the value the last direct call of the storage interface returned
    ret

storeVars == <<localStorage, inFlight>>
indexVars ==
    <<isAuthenticated, masterPassword, authMode, authError, authLoading,
      failedAttempts, authCall>>
vaultVars ==
    <<vaultData, loading, error, loadPc, loadResult, saveTimer, autoLockTimer,
      lockPending, nextId, autoLockProgress, searchQuery, importCall>>
clipVars == <<clipboard, clearCalls, copies>>
vars == <<storeVars, indexVars, toast, vaultVars, clipVars, ret>>

NoReturn == [op |-> "none"]
\* no handleAuth call is waiting
NoCall == [password |-> EmptyString, authMode |-> "none", failedAttempts |-> 0]
\* no loadVaultData result is awaited
NoResult == [ok |-> FALSE, value |-> "none"]
\* no import is under way
NoImport ==
    [pending |-> FALSE, backupData |-> <<"text", "">>, existingNames |-> {},
     password |-> EmptyString]

\* SecureVault's useState initial values; also what an unmounted SecureVault
\* is modelled as
VaultUnmounted ==
    /\ vaultData' = EmptyVault
    /\ loading' = TRUE
    /\ error' = ""
    /\ loadPc' = "unmounted"
    /\ loadResult' = NoResult
    /\ saveTimer' = FALSE
    /\ autoLockTimer' = FALSE
    /\ autoLockProgress' = FALSE
    /\ searchQuery' = ""
    /\ importCall' = NoImport

\* Index renders SecureVault instead of AuthScreen
VaultRendered == isAuthenticated /\ masterPassword # EmptyString
\* SecureVault renders the vault (VaultHeader, the key list, the dialogs)
VaultUsable == VaultRendered /\ ~loading /\ error = ""

\* The application starts on an empty store.
Init ==
    /\ localStorage = [k \in StorageKeys |-> Null]
    /\ inFlight = {}
    /\ isAuthenticated = FALSE
    /\ masterPassword = EmptyString
    /\ authMode = "create"
    /\ authError = ""
    /\ authLoading = FALSE
    /\ failedAttempts = 0
    /\ authCall = NoCall
    /\ toast = ""
    /\ vaultData = EmptyVault
    /\ loading = TRUE
    /\ error = ""
    /\ loadPc = "unmounted"
    /\ loadResult = NoResult
    /\ saveTimer = FALSE
    /\ autoLockTimer = FALSE
    /\ lockPending = FALSE
    /\ nextId = 0
    /\ autoLockProgress = FALSE
    /\ searchQuery = ""
    /\ importCall = NoImport
    /\ clipboard = ""
    /\ clearCalls = {}
    /\ copies = 0
    /\ ret = NoReturn

(***************************************************************************)
(* AuthScreen and Index.handleAuth                                         *)
(***************************************************************************)
\* the number of failed attempts after which the next attempt resets the vault
MaxFailedAttempts == 2

StrengthMessage ==
    "New vault password must include uppercase letters, lowercase letters, numbers, and symbols (! @ # $ % ^ & * etc.)"
TooManyMessage ==
    "Too many failed attempts. The next password you enter will create a new vault and erase all existing data."
\* `Incorrect password. ${2 - n} attempt${2 - n === 1 ? '' : 's'} remaining before data reset.`
IncorrectMessage(newFailedAttempts) ==
    "Incorrect password. " \o ToString(MaxFailedAttempts - newFailedAttempts)
      \o " attempt"
      \o (IF MaxFailedAttempts - newFailedAttempts = 1 THEN "" ELSE "s")
      \o " remaining before data reset."

SubmitAcceptedNoPreCheck(mode, password, confirmPassword) == TRUE
\* AuthScreen.handleSubmit reaches onAuth(password)
SubmitAccepted(mode, password, confirmPassword) ==
    /\ ~(mode = "create" /\ password # confirmPassword)
    /\ IF mode = "create"
       THEN ValidatePasswordStrength(password)
       ELSE ~(Len(password) < MinPasswordLength)

\* AuthScreen.handleSubmit, and Index.handleAuth up to its 500 ms delay.
\* The submit button is disabled while loading.
HandleSubmit(password, confirmPassword) ==
    /\ ~VaultRendered
    /\ ~authLoading
    /\ IF SubmitAccepted(authMode, password, confirmPassword)
       THEN /\ authError' = ""
            /\ authLoading' = TRUE
            /\ authCall' = [password |-> password, authMode |-> authMode,
                            failedAttempts |-> failedAttempts]
            /\ UNCHANGED <<storeVars, isAuthenticated, masterPassword, authMode,
                           failedAttempts, toast, vaultVars, ret,
                   clipVars>>
       ELSE UNCHANGED vars

\* SecureVault is mounted by the render that follows setIsAuthenticated(true)
VaultMounted ==
    /\ vaultData' = EmptyVault
    /\ loading' = TRUE
    /\ error' = ""
    /\ loadPc' = "effect"
    /\ loadResult' = NoResult
    /\ saveTimer' = FALSE
    /\ autoLockTimer' = FALSE
    /\ lockPending' = FALSE
    /\ autoLockProgress' = FALSE
    /\ searchQuery' = ""
    /\ importCall' = NoImport

AuthSuccessKeepCount(password, mode) ==
    /\ masterPassword' = password
    /\ isAuthenticated' = TRUE
    /\ failedAttempts' = failedAttempts
    /\ toast' = IF mode = "create" THEN "Vault Created" ELSE "Vault Unlocked"
    /\ VaultMounted
    /\ UNCHANGED <<storeVars, authMode, authError, nextId, ret,
                   clipVars>>
\* handleAuth: the tail both modes share when nothing was thrown
AuthSuccess(password, mode) ==
    /\ masterPassword' = password
    /\ isAuthenticated' = TRUE
    /\ failedAttempts' = 0
    /\ toast' = IF mode = "create" THEN "Vault Created" ELSE "Vault Unlocked"
    /\ VaultMounted
    /\ UNCHANGED <<storeVars, authMode, authError, nextId, ret,
                   clipVars>>

AuthLoadFailedNoCount(count) ==
    /\ failedAttempts' = failedAttempts
    /\ authError' = TooManyMessage
    /\ UNCHANGED <<storeVars, isAuthenticated, masterPassword, authMode, toast,
                   vaultVars, ret,
                   clipVars>>
\* a catch whose message tells a damaged store from a wrong password
AuthLoadFailedTellsCause(count) ==
    /\ failedAttempts' = count + 1
    /\ authError' = IF JsonParse(localStorage[STORAGE_KEY]).ok
                    THEN IncorrectMessage(count + 1)
                    ELSE "Vault data is corrupted."
    /\ UNCHANGED <<storeVars, isAuthenticated, masterPassword, authMode, toast,
                   vaultVars, ret,
                   clipVars>>
\* handleAuth: the catch of loadVaultData, count being the failedAttempts the
\* closure captured
AuthLoadFailed(count) ==
    LET newFailedAttempts == count + 1
    IN  /\ failedAttempts' = newFailedAttempts
        /\ authError' = IF newFailedAttempts >= MaxFailedAttempts
                        THEN TooManyMessage
                        ELSE IncorrectMessage(newFailedAttempts)
        /\ UNCHANGED <<storeVars, isAuthenticated, masterPassword, authMode, toast,
                       vaultVars, ret,
                   clipVars>>

AuthResetAnyPassword(password) ==
    /\ localStorage' = ClearVault(localStorage)
    /\ masterPassword' = password
    /\ isAuthenticated' = TRUE
    /\ failedAttempts' = 0
    /\ authMode' = "unlock"
    /\ toast' = "New Vault Created"
    /\ VaultMounted
    /\ UNCHANGED <<inFlight, authError, nextId, ret,
                   clipVars>>
\* handleAuth: unlock mode with failedAttempts >= 2
AuthReset(password) ==
    IF ~ValidatePasswordStrength(password)
    THEN /\ authError' = StrengthMessage
         /\ UNCHANGED <<storeVars, isAuthenticated, masterPassword, authMode,
                        failedAttempts, toast, vaultVars, ret,
                   clipVars>>
    ELSE /\ localStorage' = ClearVault(localStorage)
         /\ masterPassword' = password
         /\ isAuthenticated' = TRUE
         /\ failedAttempts' = 0
         /\ authMode' = "unlock"
         /\ toast' = "New Vault Created"
         /\ VaultMounted
         /\ UNCHANGED <<inFlight, authError, nextId, ret,
                   clipVars>>

\* Index.handleAuth after its 500 ms delay.  The 300 ms timer of a lock click
\* was started before this delay and has expired before it.
HandleAuthResume ==
    /\ authCall # NoCall
    /\ ~lockPending
    /\ authCall' = NoCall
    /\ authLoading' = FALSE
    /\ IF authCall.authMode = "unlock"
       THEN IF authCall.failedAttempts >= MaxFailedAttempts
            THEN AuthReset(authCall.password)
            ELSE IF LoadVaultData(localStorage[STORAGE_KEY], authCall.password).ok
                 THEN AuthSuccess(authCall.password, authCall.authMode)
                 ELSE AuthLoadFailed(authCall.failedAttempts)
       ELSE AuthSuccess(authCall.password, authCall.authMode)

\* Index.handleLock
HandleLock ==
    /\ isAuthenticated' = FALSE
    /\ masterPassword' = EmptyString
    /\ authError' = ""
    /\ failedAttempts' = 0
    /\ authMode' = "unlock"
    /\ toast' = "Vault Locked"
    /\ VaultUnmounted
    /\ UNCHANGED <<storeVars, authLoading, authCall, nextId, ret,
                   clipVars>>

(***************************************************************************)
(* SecureVault                                                             *)
(***************************************************************************)
\* an auto-lock effect that starts its timeout whatever autoLockTime is
AutoLockArmedAlways(settings) == TRUE
\* the auto-lock effect: a timeout is pending iff autoLockTime > 0
AutoLockArmed(settings) == settings.autoLockTime > 0

\* The effects of the first render: loadData() calls loadVaultData, which
\* reads localStorage before its first await; the auto-save effect does
\* nothing while loading; the auto-lock effect starts its timeout.
LoadDataStart ==
    /\ loadPc = "effect"
    /\ loadPc' = "await"
    /\ loadResult' = LoadVaultData(localStorage[STORAGE_KEY], masterPassword)
    /\ autoLockTimer' = AutoLockArmed(vaultData.settings)
    /\ autoLockProgress' = FALSE
    /\ UNCHANGED <<storeVars, indexVars, toast, vaultData, loading, error,
                   saveTimer, lockPending, nextId, searchQuery, importCall, ret,
                   clipVars>>

\* loadData() after loadVaultData settled, and the effects of the render that
\* follows: loading is false, so the auto-save effect starts its debounce;
\* the auto-lock effect restarts with the loaded autoLockTime.
LoadDataFinish ==
    /\ loadPc = "await"
    /\ loadPc' = "done"
    /\ loadResult' = NoResult
    /\ loading' = FALSE
    /\ IF loadResult.ok
       THEN /\ vaultData' = loadResult.value
            /\ error' = ""
       ELSE /\ error' = loadResult.value
            /\ UNCHANGED vaultData
    /\ saveTimer' = (Len(vaultData'.keys) >= 0)
    /\ autoLockTimer' = AutoLockArmed(vaultData'.settings)
    /\ autoLockProgress' =
          IF vaultData'.settings.autoLockTime = vaultData.settings.autoLockTime
          THEN autoLockProgress
          ELSE FALSE
    /\ UNCHANGED <<storeVars, indexVars, toast, lockPending, nextId, searchQuery,
                   importCall, ret,
                   clipVars>>

\* The debounce of the auto-save effect expires: saveData() calls
\* saveVaultData(vaultData, masterPassword), which runs up to the await of
\* encryptData.  The effect's closure holds the current vaultData and
\* masterPassword, both being dependencies of the effect.
SaveDataStart(limit) ==
    /\ saveTimer
    /\ Cardinality(inFlight) < limit
    /\ saveTimer' = FALSE
    /\ inFlight' = inFlight \cup {[data |-> vaultData, password |-> masterPassword]}
    /\ UNCHANGED <<localStorage, indexVars, toast, vaultData, loading, error,
                   loadPc, loadResult, autoLockTimer, lockPending, nextId,
                   autoLockProgress, searchQuery, importCall, ret,
                   clipVars>>

SaveTimerFire == SaveDataStart(MaxInFlight)

\* saveVaultData after encryptData settled: localStorage.setItem.  The salt
\* and nonce encryptData drew are independent of everything else and are
\* first visible here.
SaveFinish(save, salt, iv) ==
    /\ save \in inFlight
    /\ inFlight' = inFlight \ {save}
    /\ localStorage' =
          [localStorage EXCEPT ![STORAGE_KEY] = SavedText(save.data, save.password, salt, iv)]
    /\ UNCHANGED <<indexVars, toast, vaultVars, ret,
                   clipVars>>

\* a state change of SecureVault to newData while the vault is shown, with
\* the effects of the render that follows.  The handlers that change
\* vaultData also call toast(); the auto-lock effect depends on onLock, which
\* Index creates anew whenever it renders, and whether a toast makes Index
\* render is decided in hooks/use-toast, which is not in src/: the timeout is
\* restarted or left running.
VaultDataChanged(newData) ==
    /\ vaultData' = newData
    /\ saveTimer' = (~loading /\ Len(newData.keys) >= 0)
    /\ autoLockTimer' =
          IF newData.settings.autoLockTime = vaultData.settings.autoLockTime
          THEN autoLockTimer
          ELSE AutoLockArmed(newData.settings)
    /\ autoLockProgress' \in
          IF newData.settings.autoLockTime = vaultData.settings.autoLockTime
          THEN {autoLockProgress, FALSE}
          ELSE {FALSE}

\* SecureVault.handleAddKey, from the add dialog
HandleAddKey(name, expirationDate) ==
    /\ VaultUsable
    /\ nextId < MaxIds
    /\ nextId' = nextId + 1
    /\ LET newKey == [id |-> nextId + 1, name |-> name,
                      expirationDate |-> expirationDate]
       IN  VaultDataChanged([vaultData EXCEPT !.keys = Append(@, newKey)])
    /\ UNCHANGED <<storeVars, indexVars, toast, loading, error, loadPc, loadResult,
                   lockPending, searchQuery, importCall, ret,
                   clipVars>>

\* prev.keys.map(key => key.id === id ? updatedKey : key)
WithUpdatedKey(keys, id, updatedKey) ==
    [j \in 1..Len(keys) |-> IF keys[j].id = id THEN updatedKey ELSE keys[j]]

\* SecureVault.handleUpdateKey, from the edit dialog opened for the record at
\* position i: the record gets the name entered and keeps its id
HandleUpdateKey(i, name) ==
    /\ VaultUsable
    /\ i \in 1..Len(vaultData.keys)
    /\ LET editingKey == vaultData.keys[i]
           updatedKey == [editingKey EXCEPT !.name = name]
       IN  VaultDataChanged(
              [vaultData EXCEPT !.keys = WithUpdatedKey(@, editingKey.id, updatedKey)])
    /\ UNCHANGED <<storeVars, indexVars, toast, loading, error, loadPc, loadResult,
                   lockPending, nextId, searchQuery, importCall, ret,
                   clipVars>>

\* prev.keys.filter(key => key.id !== id)
WithoutKey(keys, id) == SelectSeq(keys, LAMBDA key : key.id # id)

\* SecureVault.handleDeleteKey for the record at position i
HandleDeleteKey(i) ==
    /\ VaultUsable
    /\ i \in 1..Len(vaultData.keys)
    /\ VaultDataChanged(
          [vaultData EXCEPT !.keys = WithoutKey(@, vaultData.keys[i].id)])
    /\ UNCHANGED <<storeVars, indexVars, toast, loading, error, loadPc, loadResult,
                   lockPending, nextId, searchQuery, importCall, ret,
                   clipVars>>

\* the settings a user saves in the settings dialog in this model
SettingsChoices ==
    {DEFAULT_SETTINGS,
     [DEFAULT_SETTINGS EXCEPT !.autoLockTime = 0, !.showKeyPreview = TRUE]}

\* SecureVault.handleUpdateSettings
HandleUpdateSettings(newSettings) ==
    /\ VaultUsable
    /\ VaultDataChanged([vaultData EXCEPT !.settings = newSettings])
    /\ UNCHANGED <<storeVars, indexVars, toast, loading, error, loadPc, loadResult,
                   lockPending, nextId, searchQuery, importCall, ret,
                   clipVars>>

\* the search box of VaultHeader: onSearchChange = setSearchQuery.  No effect
\* depends on searchQuery.
HandleSearch(query) ==
    /\ VaultUsable
    /\ searchQuery' = query
    /\ UNCHANGED <<storeVars, indexVars, toast, vaultData, loading, error, loadPc,
                   loadResult, saveTimer, autoLockTimer, lockPending, nextId,
                   autoLockProgress, importCall, ret,
                   clipVars>>

\* time passes while the auto-lock timeout is pending
TimePasses ==
    /\ autoLockTimer
    /\ ~autoLockProgress
    /\ autoLockProgress' = TRUE
    /\ UNCHANGED <<storeVars, indexVars, toast, vaultData, loading, error, loadPc,
                   loadResult, saveTimer, autoLockTimer, lockPending, nextId,
                   searchQuery, importCall, ret,
                   clipVars>>

\* SecureVault.handleImportVault up to the await of importVault: a file was
\* chosen and its text read.  The onchange closure holds the vaultData and
\* the masterPassword of the render in which Import was clicked.
HandleImportStart(backupData) ==
    /\ VaultUsable
    /\ ~importCall.pending
    /\ importCall' =
          [pending |-> TRUE, backupData |-> backupData,
           existingNames |-> {vaultData.keys[i].name : i \in 1..Len(vaultData.keys)},
           password |-> masterPassword]
    /\ UNCHANGED <<storeVars, indexVars, toast, vaultData, loading, error, loadPc,
                   loadResult, saveTimer, autoLockTimer, lockPending, nextId,
                   autoLockProgress, searchQuery, ret,
                   clipVars>>

\* new Set(vaultData.keys.map(k => k.name)) of the closure's vaultData
ExistingNames(captured, keys) == captured

\* a merge that keeps the live settings
MergedSettingsKeepLive(prev, imported) == prev
\* { ...prev.settings, ...importedData.settings }
MergedSettings(prev, imported) == MergeSettings(prev, imported)

\* handleImportVault: the merge by name into prev
ImportMerged(importedData) ==
    LET existingNames == ExistingNames(importCall.existingNames, vaultData.keys)
        newKeys == SelectSeq(importedData.keys, LAMBDA k : k.name \notin existingNames)
    IN  VaultDataChanged(
           [vaultData EXCEPT
               !.keys = @ \o newKeys,
               !.settings = MergedSettings(@, importedData.settings)])

\* a catch that empties the live vault
ImportRejectedClearsVault == VaultDataChanged(EmptyVault)
\* handleImportVault: the catch, which only shows the "Import Failed" toast
ImportRejected ==
    /\ autoLockProgress' \in {autoLockProgress, FALSE}
    /\ UNCHANGED <<vaultData, saveTimer, autoLockTimer>>

\* SecureVault.handleImportVault after importVault settled
HandleImportFinish ==
    /\ importCall.pending
    /\ importCall' = NoImport
    /\ LET importedData == ImportVault(importCall.backupData, importCall.password)
       IN  /\ ret' = [op |-> "import", backupData |-> importCall.backupData,
                      password |-> importCall.password, result |-> importedData]
           /\ IF importedData.ok
              THEN ImportMerged(importedData.value)
              ELSE ImportRejected
    /\ UNCHANGED <<storeVars, indexVars, toast, loading, error, loadPc, loadResult,
                   lockPending, nextId, searchQuery,
                   clipVars>>

\* VaultHeader.handleLock up to its 300 ms delay; the button is disabled
\* while isLocking
LockClick ==
    /\ VaultUsable
    /\ ~lockPending
    /\ lockPending' = TRUE
    /\ UNCHANGED <<storeVars, indexVars, toast, vaultData, loading, error,
                   loadPc, loadResult, saveTimer, autoLockTimer, nextId,
                   autoLockProgress, searchQuery, importCall, ret,
                   clipVars>>

\* VaultHeader.handleLock after its delay: onLock()
LockFire ==
    /\ lockPending
    /\ lockPending' = FALSE
    /\ HandleLock

\* the auto-lock timeout expires: toast and onLock()
AutoLockFire ==
    /\ autoLockTimer
    /\ UNCHANGED lockPending
    /\ HandleLock

(***************************************************************************)
(* KeyCard and copyToClipboard                                             *)
(***************************************************************************)
\* the number of copyToClipboard calls followed
MaxCopies == 2

\* apiKey.apiKey, the secret of a record
ApiKeyOf(key) == "secret-" \o ToString(key.id)

\* the delay handleCopyName passes, in seconds
NameClearTime == 10

\* setTimeout(..., clearAfterMs): the callback joins the scheduled ones
Scheduled(calls, call) == calls \cup {call}

\* copyToClipboard(text, clearAfterMs): writeText(text) settles and the
\* auto-clear callback is scheduled, or writeText rejects and the caller
\* shows "Copy Failed".  Either way the caller shows a toast.
CopyToClipboard(text, delay) ==
    /\ copies < MaxCopies
    /\ copies' = copies + 1
    /\ \/ /\ clipboard' = text
          /\ clearCalls' =
                Scheduled(clearCalls,
                          [id |-> copies + 1, text |-> text, delay |-> delay,
                           pc |-> "timer", seen |-> ""])
       \/ UNCHANGED <<clipboard, clearCalls>>
    /\ autoLockProgress' \in {autoLockProgress, FALSE}
    /\ UNCHANGED <<storeVars, indexVars, toast, vaultData, loading, error, loadPc,
                   loadResult, saveTimer, autoLockTimer, lockPending, nextId,
                   searchQuery, importCall, ret>>

\* KeyCard.handleCopyKey of the record at position i
HandleCopyKey(i) ==
    /\ VaultUsable
    /\ i \in 1..Len(vaultData.keys)
    /\ CopyToClipboard(ApiKeyOf(vaultData.keys[i]),
                       vaultData.settings.clipboardClearTime)

\* KeyCard.handleCopyName of the record at position i
HandleCopyName(i) ==
    /\ VaultUsable
    /\ i \in 1..Len(vaultData.keys)
    /\ CopyToClipboard(vaultData.keys[i].name, NameClearTime)

\* the timeout of this callback can be the next to expire: no callback
\* scheduled earlier with a delay at most as long is still waiting
CanExpire(call) ==
    /\ call \in clearCalls
    /\ call.pc = "timer"
    /\ \A other \in clearCalls :
          ~(other.pc = "timer" /\ other.id < call.id /\ other.delay <= call.delay)

\* await navigator.clipboard.readText()
ReadClipboard(call) == clipboard

\* the auto-clear callback starts: readText() reads the clipboard, or rejects
\* and the catch ends the callback
ClearRead(call) ==
    /\ CanExpire(call)
    /\ \/ clearCalls' =
             (clearCalls \ {call})
               \cup {[call EXCEPT !.pc = "read", !.seen = ReadClipboard(call)]}
       \/ clearCalls' = clearCalls \ {call}
    /\ UNCHANGED <<storeVars, indexVars, toast, vaultVars, clipboard, copies, ret>>

\* the auto-clear callback after readText settled: writeText('') if the text
\* read is the text copied; a rejected writeText ends in the catch
ClearWrite(call) ==
    /\ call \in clearCalls
    /\ call.pc = "read"
    /\ clearCalls' = clearCalls \ {call}
    /\ \/ clipboard' = IF call.seen = call.text THEN "" ELSE clipboard
       \/ UNCHANGED clipboard
    /\ UNCHANGED <<storeVars, indexVars, toast, vaultVars, copies, ret>>

\* the texts other programs put on the clipboard
OtherTexts == {"other"}

\* another program, or the user elsewhere, writes the clipboard
ExternalWrite(text) ==
    /\ clipboard # text
    /\ clipboard' = text
    /\ UNCHANGED <<storeVars, indexVars, toast, vaultVars, clearCalls, copies, ret>>

\* The page is loaded again: every component starts from its initial state,
\* pending timers and calls are gone, and the mount effect of Index sets
\* authMode from vaultExists().
Reload ==
    /\ inFlight' = {}
    /\ isAuthenticated' = FALSE
    /\ masterPassword' = EmptyString
    /\ authMode' = IF VaultExists(localStorage) THEN "unlock" ELSE "create"
    /\ authError' = ""
    /\ authLoading' = FALSE
    /\ failedAttempts' = 0
    /\ authCall' = NoCall
    /\ toast' = ""
    /\ VaultUnmounted
    /\ lockPending' = FALSE
    /\ clearCalls' = {}
    /\ UNCHANGED <<localStorage, nextId, clipboard, copies, ret>>

Next ==
    \/ \E password \in Passwords :
          \E confirmPassword \in (IF authMode = "create" THEN Passwords ELSE {password}) :
             HandleSubmit(password, confirmPassword)
    \/ HandleAuthResume
    \/ LoadDataStart
    \/ LoadDataFinish
    \/ SaveTimerFire
    \/ \E save \in inFlight, salt \in AppSalts, iv \in AppIvs : SaveFinish(save, salt, iv)
    \/ \E name \in Names, expirationDate \in AppExpirationDates :
          HandleAddKey(name, expirationDate)
    \/ \E i \in 1..MaxIds : HandleDeleteKey(i)
    \/ \E newSettings \in SettingsChoices : HandleUpdateSettings(newSettings)
    \/ LockClick
    \/ LockFire
    \/ AutoLockFire
    \/ Reload

Spec == Init /\ [][Next]_vars

(***************************************************************************)
(* A session of SecureVault over a vault persisted earlier: records are    *)
(* added, searched and imported, settings changed, time passes.            *)
(***************************************************************************)
\* the settings of a vault with auto-lock off and everything else changed
CustomSettings ==
    [clipboardClearTime |-> 60, autoLockTime |-> 0,
     darkMode |-> TRUE, showKeyPreview |-> TRUE]

KeyA == [id |-> 101, name |-> "A", expirationDate |-> "2030-01-01"]
KeyB == [id |-> 102, name |-> "B", expirationDate |-> "2030-01-01"]
KeyC == [id |-> 103, name |-> "C", expirationDate |-> "2030-01-01"]

\* the vaults found persisted under the session's password
SessionVaults ==
    [keys : {<<KeyA>>, <<KeyA, KeyB>>},
     settings : {DEFAULT_SETTINGS, CustomSettings},
     version : {1}]

\* the password of the session, and another one a backup was made under
SessionPassword == PwStrong
OtherPassword == PwNewStrong

\* a backup of records B and C with settings that carry darkMode only
BackupBC ==
    [keys |-> <<KeyB, KeyC>>, settings |-> [darkMode |-> TRUE], version |-> 1]

\* the text of a backup file made of this object under this password
BackupText(object, password) ==
    <<"json", EncryptData(<<"json", object>>, password, "salt2", "iv2")>>

\* the texts of the files chosen for import: the backup under the session's
\* password and under another one, an object without keys, and an object
\* whose keys are no array
ImportedTexts ==
    {BackupText(BackupBC, SessionPassword),
     BackupText(BackupBC, OtherPassword),
     BackupText([settings |-> DEFAULT_SETTINGS, version |-> 1], SessionPassword),
     BackupText([keys |-> NotAnArray, settings |-> DEFAULT_SETTINGS, version |-> 1],
                SessionPassword)}

\* the names typed in the add dialog in a session
SessionNames == {"B"}
SearchQueries == {"", "a"}

\* handleAuth has just unlocked the vault: SecureVault is mounted, its
\* effects have not run yet.
InitVault ==
    /\ \E data \in SessionVaults :
          localStorage =
            [k \in StorageKeys |->
               IF k = STORAGE_KEY
               THEN SavedText(data, SessionPassword, "salt1", "iv1")
               ELSE Null]
    /\ inFlight = {}
    /\ isAuthenticated = TRUE
    /\ masterPassword = SessionPassword
    /\ authMode = "unlock"
    /\ authError = ""
    /\ authLoading = FALSE
    /\ failedAttempts = 0
    /\ authCall = NoCall
    /\ toast = "Vault Unlocked"
    /\ vaultData = EmptyVault
    /\ loading = TRUE
    /\ error = ""
    /\ loadPc = "effect"
    /\ loadResult = NoResult
    /\ saveTimer = FALSE
    /\ autoLockTimer = FALSE
    /\ lockPending = FALSE
    /\ nextId = 0
    /\ autoLockProgress = FALSE
    /\ searchQuery = ""
    /\ importCall = NoImport
    /\ clipboard = ""
    /\ clearCalls = {}
    /\ copies = 0
    /\ ret = NoReturn

NextVault ==
    \/ LoadDataStart
    \/ LoadDataFinish
    \/ \E name \in SessionNames, expirationDate \in AppExpirationDates :
          HandleAddKey(name, expirationDate)
    \/ \E newSettings \in SettingsChoices : HandleUpdateSettings(newSettings)
    \/ \E query \in SearchQueries : HandleSearch(query)
    \/ \E backupData \in ImportedTexts : HandleImportStart(backupData)
    \/ HandleImportFinish
    \/ TimePasses
    \/ AutoLockFire

SpecVault == InitVault /\ [][NextVault]_vars

\* the same session with the records' secrets and names copied, other
\* programs writing the clipboard, and the auto-lock
NextClipboard ==
    \/ LoadDataStart
    \/ LoadDataFinish
    \/ \E i \in 1..2 : HandleCopyKey(i)
    \/ \E i \in 1..2 : HandleCopyName(i)
    \/ \E call \in clearCalls : ClearRead(call)
    \/ \E call \in clearCalls : ClearWrite(call)
    \/ \E text \in OtherTexts : ExternalWrite(text)
    \/ AutoLockFire

SpecClipboard == InitVault /\ [][NextClipboard]_vars

\* the same session with records added and deleted and the saves the
\* auto-save effect issues, a save taking any time to reach setItem
NextSaves ==
    \/ LoadDataStart
    \/ LoadDataFinish
    \/ \E name \in SessionNames, expirationDate \in AppExpirationDates :
          HandleAddKey(name, expirationDate)
    \/ \E i \in 1..2 : HandleDeleteKey(i)
    \/ SaveDataStart(MaxSessionSaves)
    \/ \E save \in inFlight, salt \in AppSalts, iv \in AppIvs : SaveFinish(save, salt, iv)

SpecSaves == InitVault /\ [][NextSaves]_vars

\* the names entered in the edit dialog in a session
EditedNames == {"D"}
\* a file is imported while the vault holds fewer records than this
MaxRecords == 3

\* the same session with records added, renamed, deleted and imported
NextRecords ==
    \/ LoadDataStart
    \/ LoadDataFinish
    \/ \E name \in SessionNames, expirationDate \in AppExpirationDates :
          HandleAddKey(name, expirationDate)
    \/ \E i \in 1..2, name \in EditedNames : HandleUpdateKey(i, name)
    \/ \E i \in 1..2 : HandleDeleteKey(i)
    \/ \E backupData \in ImportedTexts :
          /\ Len(vaultData.keys) < MaxRecords
          /\ HandleImportStart(backupData)
    \/ HandleImportFinish

SpecRecords == InitVault /\ [][NextRecords]_vars


(***************************************************************************)
(* The storage interface called directly: saveVaultData, loadVaultData,    *)
(* vaultExists, clearVault, encryptData and decryptData applied to inputs  *)
(* drawn from bounded sets, one call at a time, each awaited.  The store   *)
(* starts empty or holding an envelope written earlier, possibly by a      *)
(* version whose settings had fewer fields.                                *)
(***************************************************************************)
StorePasswords == {PwStrong, PwNewStrong, PwAbc}

\* VaultSettings values
StoreSettings ==
    [clipboardClearTime : {30, 60}, autoLockTime : {15, 0},
     darkMode : BOOLEAN, showKeyPreview : BOOLEAN]

\* settings objects that carry only some of the fields
PartialSettings ==
    {[f \in D |-> s[f]] : D \in SUBSET SettingsFields, s \in StoreSettings}

\* ApiKey records
StoreKeys ==
    [id : {1}, name : Names, expirationDate : ExpirationDates]

\* VaultData values handed to saveVaultData
StoreVaults ==
    [keys : {<<>>} \cup {<<k>> : k \in StoreKeys},
     settings : {DEFAULT_SETTINGS,
                 [clipboardClearTime |-> 60, autoLockTime |-> 0,
                  darkMode |-> TRUE, showKeyPreview |-> TRUE]},
     version : {1, 2}]

\* the objects found in envelopes written earlier
StoredObjects ==
    {[keys |-> <<>>, settings |-> s, version |-> 1] : s \in PartialSettings}
      \cup {[keys |-> <<>>, version |-> 1]}

\* the objects found in backup files
BackupObjects ==
    {[keys |-> <<>>, settings |-> DEFAULT_SETTINGS, version |-> 1],
     [keys |-> <<>>, version |-> 0],
     [keys |-> <<>>,
      settings |-> [clipboardClearTime |-> 60, darkMode |-> TRUE]],
     [keys |-> <<>>,
      settings |-> [clipboardClearTime |-> 60, autoLockTime |-> 0, darkMode |-> TRUE],
      version |-> 2],
     [settings |-> DEFAULT_SETTINGS, version |-> 1],
     [keys |-> NotAnArray, settings |-> DEFAULT_SETTINGS, version |-> 1]}

\* a backup of the default empty vault
IntactBackup ==
    <<"json", EncryptData(<<"json", EmptyVault>>, PwStrong, "salt2", "iv2")>>

\* the texts of the files handed to importVault
BackupTexts ==
    {<<"json", EncryptData(<<"json", object>>, PwStrong, "salt2", "iv2")>> :
        object \in BackupObjects}
      \cup {<<"text", "not a backup">>,
            <<"json", [IntactBackup[2] EXCEPT
                         !.data = Btoa([IntactBackup[2].data[2] EXCEPT !.tag = FALSE])]>>,
            <<"json", [IntactBackup[2] EXCEPT !.data = <<"text", "%%%">>]>>}

\* the plaintexts handed to encryptData
Plaintexts == {<<"text", "">>, JsonStringify(EmptyVault)}

InitStore ==
    /\ \/ localStorage = [k \in StorageKeys |-> Null]
       \/ \E object \in StoredObjects, password \in StorePasswords :
            localStorage =
              [k \in StorageKeys |->
                 IF k = STORAGE_KEY
                 THEN <<"json", EncryptData(<<"json", object>>, password, "salt1", "iv1")>>
                 ELSE Null]
    /\ inFlight = {}
    /\ isAuthenticated = FALSE
    /\ masterPassword = EmptyString
    /\ authMode = "create"
    /\ authError = ""
    /\ authLoading = FALSE
    /\ failedAttempts = 0
    /\ authCall = NoCall
    /\ toast = ""
    /\ vaultData = EmptyVault
    /\ loading = TRUE
    /\ error = ""
    /\ loadPc = "unmounted"
    /\ loadResult = NoResult
    /\ saveTimer = FALSE
    /\ autoLockTimer = FALSE
    /\ lockPending = FALSE
    /\ nextId = 0
    /\ autoLockProgress = FALSE
    /\ searchQuery = ""
    /\ importCall = NoImport
    /\ clipboard = ""
    /\ clearCalls = {}
    /\ copies = 0
    /\ ret = NoReturn

\* await saveVaultData(data, masterPassword)
StoreSave(data, password, salt, iv) ==
    /\ localStorage' =
         [localStorage EXCEPT ![STORAGE_KEY] = SavedText(data, password, salt, iv)]
    /\ ret' = [op |-> "save", data |-> data, password |-> password]
    /\ UNCHANGED <<inFlight, indexVars, toast, vaultVars,
                   clipVars>>

\* await loadVaultData(masterPassword)
StoreLoad(password) ==
    /\ ret' = [op |-> "load", password |-> password,
               result |-> LoadVaultData(localStorage[STORAGE_KEY], password)]
    /\ UNCHANGED <<storeVars, indexVars, toast, vaultVars,
                   clipVars>>

\* vaultExists()
StoreExists ==
    /\ ret' = [op |-> "exists", result |-> VaultExists(localStorage)]
    /\ UNCHANGED <<storeVars, indexVars, toast, vaultVars,
                   clipVars>>

\* clearVault()
StoreClear ==
    /\ localStorage' = ClearVault(localStorage)
    /\ ret' = [op |-> "clear"]
    /\ UNCHANGED <<inFlight, indexVars, toast, vaultVars,
                   clipVars>>

\* await decryptData(await encryptData(data, password), otherPassword)
CodecRoundTrip(data, password, otherPassword, salt, iv) ==
    /\ ret' = [op |-> "decrypt", data |-> data, encryptedWith |-> password,
               password |-> otherPassword,
               result |-> DecryptData(EncryptData(data, password, salt, iv), otherPassword)]
    /\ UNCHANGED <<storeVars, indexVars, toast, vaultVars,
                   clipVars>>

\* await importVault(backupData, password)
StoreImport(backupData, password) ==
    /\ ret' = [op |-> "import", backupData |-> backupData, password |-> password,
               result |-> ImportVault(backupData, password)]
    /\ UNCHANGED <<storeVars, indexVars, toast, vaultVars,
                   clipVars>>

\* await exportVault(password)
StoreExport(password, salt, iv) ==
    /\ ret' = [op |-> "export", password |-> password,
               result |-> ExportVault(localStorage[STORAGE_KEY], password,
                                      "2026-01-01T00:00:00.000Z", salt, iv)]
    /\ UNCHANGED <<storeVars, indexVars, toast, vaultVars,
                   clipVars>>

\* the texts importVault is handed: backup files, and the text the export
\* just made returned
ImportableTexts ==
    BackupTexts \cup
      (IF ret.op = "export" /\ ret.result.ok THEN {ret.result.value} ELSE {})

NextStore ==
    \/ \E data \in StoreVaults, password \in StorePasswords,
          salt \in Salts, iv \in Ivs :
            StoreSave(data, password, salt, iv)
    \/ \E password \in StorePasswords : StoreLoad(password)
    \/ StoreExists
    \/ StoreClear
    \/ \E data \in Plaintexts, password \in StorePasswords,
          otherPassword \in StorePasswords, salt \in Salts, iv \in Ivs :
            CodecRoundTrip(data, password, otherPassword, salt, iv)
    \/ \E backupData \in ImportableTexts, password \in {PwStrong, PwNewStrong} :
            StoreImport(backupData, password)
    \/ \E password \in StorePasswords, salt \in AppSalts, iv \in AppIvs :
            StoreExport(password, salt, iv)

SpecStore == InitStore /\ [][NextStore]_vars


(***************************************************************************)
(* Properties.                                                             *)
(***************************************************************************)
\* the persisted envelope, read through the symbolic encodings
PersistedText == localStorage[STORAGE_KEY]
Persisted == PersistedText # Null
\* the password an envelope text was encrypted under
SealedPassword(text) == text[2].data[2].key.password
\* the object an envelope text was encrypted from
SealedObject(text) == text[2].data[2].plaintext[2][2]

\* the AuthController states of the specification
Locked(n) == ~isAuthenticated /\ authMode = "unlock" /\ failedAttempts = n
NoVault == ~isAuthenticated /\ authMode = "create"
Unlocked == isAuthenticated

\* a handleAuth call leaves its delay and runs to its end
AttemptEnds == HandleAuthResume
\* a handleLock call: by the lock button's delayed callback or by auto-lock
LockEvent ==
    /\ toast' = "Vault Locked"
    /\ \/ lockPending /\ ~lockPending'
       \/ autoLockTimer /\ ~autoLockTimer'

\* C1: from Locked(n), n < 2, an unlock attempt with a password other than
\* the one the persisted envelope was encrypted under moves to Locked(n+1),
\* stays locked, leaves the store unchanged and sets the warning: one attempt
\* remaining after the first failure, the reset announcement after the second.
C1_FailedAttemptAdvances ==
    [][ \A n \in {0, 1} :
          (/\ Locked(n)
           /\ AttemptEnds
           /\ Persisted
           /\ SealedPassword(PersistedText) # authCall.password)
          => /\ Locked(n + 1)'
             /\ localStorage' = localStorage
             /\ authError' =
                  IF n = 0
                  THEN "Incorrect password. 1 attempt remaining before data reset."
                  ELSE "Too many failed attempts. The next password you enter will create a new vault and erase all existing data."
      ]_vars

\* C1 witness: two failed attempts against a persisted vault have been counted
C1_Witness ==
    /\ Locked(2)
    /\ Persisted
    /\ authCall = NoCall
    /\ authError = TooManyMessage

\* C2: from Locked(2), an attempt with a strength-valid password is not tried
\* against the vault: the store is cleared, the session is Unlocked with
\* count 0 and zero records, whatever password the old vault had; and the new
\* empty vault is persisted under that password, at the latest when the lock
\* button ends the session the reset started.
C2_ResetPersistsNewVault ==
    [][ /\ (/\ Locked(2)
            /\ AttemptEnds
            /\ ValidatePasswordStrength(authCall.password))
           => /\ Unlocked'
              /\ failedAttempts' = 0
              /\ masterPassword' = authCall.password
              /\ Len(vaultData'.keys) = 0
              /\ \A k \in StorageKeys : localStorage'[k] = Null
        /\ (/\ Unlocked
            /\ toast = "New Vault Created"
            /\ lockPending /\ ~lockPending')
           => /\ Persisted'
              /\ SealedPassword(PersistedText') = masterPassword
      ]_vars

C4_CountResetOnUnlockAndLock ==
    [][ /\ (~isAuthenticated /\ isAuthenticated') => failedAttempts' = 0
        /\ LockEvent => Locked(0)'
      ]_vars

\* C4 witness: an unlock by loading the persisted vault has succeeded
C4_Witness ==
    /\ Unlocked
    /\ toast = "Vault Unlocked"
    /\ failedAttempts = 0
    /\ Persisted

\* the strength policy as the specification words it
IsLetterOrDigit(c) == c \in UpperCase \cup LowerCase \cup Digits
SatisfiesPolicy(password) ==
    /\ Len(password) >= 8
    /\ \E i \in 1..Len(password) : password[i] \in UpperCase
    /\ \E i \in 1..Len(password) : password[i] \in LowerCase
    /\ \E i \in 1..Len(password) : password[i] \in Digits
    /\ \E i \in 1..Len(password) : ~IsLetterOrDigit(password[i])

\* C5: from NoVault, create reaches Unlocked only with a password that
\* satisfies the strength policy; a create call is started only with such a
\* password, and while in NoVault nothing is persisted.
C5_CreateNeedsStrongPassword ==
    /\ [][ /\ (NoVault /\ Unlocked') => SatisfiesPolicy(masterPassword')
           /\ (NoVault /\ authCall = NoCall /\ authCall' # NoCall)
                => SatisfiesPolicy(authCall'.password)
         ]_vars
    /\ [](NoVault => ~Persisted)

\* C5 witness: a vault was created
C5_Witness ==
    /\ Unlocked
    /\ authMode = "create"
    /\ toast = "Vault Created"
    /\ masterPassword = PwStrong

\* C6: once create has reached Unlocked, an envelope that decrypts under the
\* password exists in the store before a lock can happen: it is there when
\* the lock button's callback ends the session create started.
C6_CreatePersistsBeforeLock ==
    [][ (/\ Unlocked
         /\ toast = "Vault Created"
         /\ lockPending /\ ~lockPending')
        => /\ Persisted'
           /\ SealedPassword(PersistedText') = masterPassword
      ]_vars

\* the unlock prompt takes an attempt with this password: handleSubmit
\* reaches handleAuth
AttemptStarts(password) ==
    /\ HandleSubmit(password, password)
    /\ authCall' # NoCall
    /\ authCall'.password = password

\* the unlock prompt is shown and idle, a vault saved under Str0ng!Pass is
\* persisted
PromptOverStrongVault ==
    /\ ~isAuthenticated
    /\ authMode = "unlock"
    /\ ~authLoading
    /\ Persisted
    /\ SealedPassword(PersistedText) = PwStrong

C8_FirstRunLoad ==
    [][ /\ (ret'.op = "exists" /\ ~Persisted) => (ret'.result = FALSE)
        /\ (ret'.op = "load" /\ ~Persisted)
             => /\ ret'.result.ok
                /\ ret'.result.value =
                     [keys |-> <<>>,
                      settings |-> [clipboardClearTime |-> 30, autoLockTime |-> 15,
                                    darkMode |-> FALSE, showKeyPreview |-> FALSE],
                      version |-> 1]
                /\ localStorage' = localStorage
                /\ ~Persisted'
      ]_vars

\* C8 witness: a load was served while nothing is persisted
C8_Witness ==
    /\ ret.op = "load"
    /\ ret.result.ok
    /\ Len(ret.result.value.keys) = 0
    /\ ~Persisted
    /\ localStorage[SETTINGS_KEY] = Null

\* two VaultData values with the same records, settings and version; a field
\* holding undefined and an absent field read the same
SameVault(a, b) ==
    /\ Len(a.keys) = Len(b.keys)
    /\ \A i \in 1..Len(a.keys) :
         \A f \in KeyFields : Read(a.keys[i], f) = Read(b.keys[i], f)
    /\ a.settings = b.settings
    /\ a.version = b.version

DefaultedSettings(stored) ==
    LET fixed == [clipboardClearTime |-> 30, autoLockTime |-> 15,
                  darkMode |-> FALSE, showKeyPreview |-> FALSE]
    IN  [f \in SettingsFields |->
           IF "settings" \in DOMAIN stored /\ f \in DOMAIN stored.settings
           THEN stored.settings[f]
           ELSE fixed[f]]

\* C10: the settings a successful loadVaultData or importVault returns are
\* the fixed defaults (30 s, 15 min, dark mode off, key preview off)
\* overridden by the fields present in the decrypted object: a missing
\* showKeyPreview comes back false, a present field keeps its value.
C10_SettingsDefaulting ==
    [][ /\ (ret'.op = "load" /\ Persisted /\ ret'.result.ok)
             => ret'.result.value.settings
                  = DefaultedSettings(SealedObject(PersistedText))
        /\ (ret'.op = "import" /\ ret'.result.ok)
             => ret'.result.value.settings
                  = DefaultedSettings(SealedObject(ret'.backupData))
      ]_vars

\* C10 witness: a stored vault whose settings lack showKeyPreview and carry
\* darkMode on was loaded
C10_Witness ==
    /\ ret.op = "load"
    /\ ret.result.ok
    /\ Persisted
    /\ "settings" \in DOMAIN SealedObject(PersistedText)
    /\ "showKeyPreview" \notin DOMAIN SealedObject(PersistedText).settings
    /\ "darkMode" \in DOMAIN SealedObject(PersistedText).settings
    /\ SealedObject(PersistedText).settings.darkMode
    /\ ret.result.value.settings.showKeyPreview = FALSE
    /\ ret.result.value.settings.darkMode

(***************************************************************************)
(* The unlock prompt over a store that was written before the page was     *)
(* loaded: intact, altered or damaged.                                     *)
(***************************************************************************)
\* an envelope text with one bit of its ciphertext flipped: the tag no longer
\* matches
Tampered(text) ==
    <<"json", [text[2] EXCEPT !.data = Btoa([text[2].data[2] EXCEPT !.tag = FALSE])]>>

\* an envelope text whose data field is no base64 text
BadEncoding(text) ==
    <<"json", [text[2] EXCEPT !.data = <<"text", "%%%">>]>>

\* an envelope text that lost its iv field
MissingField(text) ==
    <<"json", [f \in {"data", "salt"} |-> text[2][f]]>>

\* a stored text that is not JSON
NotJsonText == <<"text", "not json">>

\* the vault found in the store when the page is loaded
FoundVault ==
    [keys |-> <<[id |-> 101, name |-> "A", expirationDate |-> "2030-01-01"]>>,
     settings |-> DEFAULT_SETTINGS, version |-> 1]

IntactText == SavedText(FoundVault, PwStrong, "salt1", "iv1")

\* the texts found under STORAGE_KEY when the page is loaded
FoundTexts ==
    {IntactText,
     Tampered(IntactText),
     BadEncoding(IntactText),
     MissingField(IntactText),
     NotJsonText,
     <<"json", EncryptData(<<"text", "">>, PwStrong, "salt1", "iv1")>>}

\* The page is loaded over a store holding one of these texts: the mount
\* effect of Index has set authMode from vaultExists().
InitAuth ==
    /\ \E text \in FoundTexts :
          localStorage = [k \in StorageKeys |-> IF k = STORAGE_KEY THEN text ELSE Null]
    /\ inFlight = {}
    /\ isAuthenticated = FALSE
    /\ masterPassword = EmptyString
    /\ authMode = "unlock"
    /\ authError = ""
    /\ authLoading = FALSE
    /\ failedAttempts = 0
    /\ authCall = NoCall
    /\ toast = ""
    /\ vaultData = EmptyVault
    /\ loading = TRUE
    /\ error = ""
    /\ loadPc = "unmounted"
    /\ loadResult = NoResult
    /\ saveTimer = FALSE
    /\ autoLockTimer = FALSE
    /\ lockPending = FALSE
    /\ nextId = 0
    /\ autoLockProgress = FALSE
    /\ searchQuery = ""
    /\ importCall = NoImport
    /\ clipboard = ""
    /\ clearCalls = {}
    /\ copies = 0
    /\ ret = NoReturn

NextAuth ==
    \/ \E password \in Passwords : HandleSubmit(password, password)
    \/ HandleAuthResume
    \/ LoadDataStart
    \/ LoadDataFinish
    \/ SaveTimerFire
    \/ \E save \in inFlight, salt \in AppSalts, iv \in AppIvs : SaveFinish(save, salt, iv)
    \/ LockClick
    \/ LockFire
    \/ AutoLockFire
    \/ Reload

SpecAuth == InitAuth /\ [][NextAuth]_vars

\* the result of the load an attempt made
AttemptLoad == LoadVaultData(localStorage[STORAGE_KEY], authCall.password)

\* an ordinary unlock attempt ends and its load failed
AttemptFails ==
    /\ HandleAuthResume
    /\ authCall.authMode = "unlock"
    /\ authCall.failedAttempts < 2
    /\ ~AttemptLoad.ok

\* C11: whatever makes loadVaultData fail (a wrong password, an altered
\* envelope, a damaged or malformed stored text), it fails with the one
\* message "Failed to decrypt vault data. Check your master password.", and
\* the unlock prompt shows a message fixed by the failure count alone: the
\* attempts-left warning after the first failure, the reset warning after
\* the second.
C11_LoadFailureIndistinguishable ==
    [][ AttemptFails
        => /\ AttemptLoad.value
                = "Failed to decrypt vault data. Check your master password."
           /\ failedAttempts' = failedAttempts + 1
           /\ authError' =
                IF failedAttempts = 0
                THEN "Incorrect password. 1 attempt remaining before data reset."
                ELSE TooManyMessage
           /\ localStorage' = localStorage
           /\ ~isAuthenticated'
      ]_vars

\* C11 witness: an attempt over an altered envelope was refused with the
\* message a wrong password gets
C11_Witness ==
    /\ localStorage[STORAGE_KEY] = Tampered(IntactText)
    /\ ~isAuthenticated
    /\ failedAttempts = 1
    /\ authError = IncorrectMessage(1)
    /\ authCall = NoCall

\* the blob does not decrypt under the password: it is no JSON text, its
\* fields are no base64, or AES-GCM refuses it (wrong password, altered
\* ciphertext)
Undecryptable(backupData, password) ==
    LET encryptedData == JsonParse(backupData)
    IN  \/ ~encryptedData.ok
        \/ ~DecryptData(encryptedData.value, password).ok

\* C12 as stated: two imports that fail because the blob does not decrypt (a
\* wrong password, an altered blob, a blob with invalid encoding) report the
\* same error.
C12_ImportFailureUniform ==
    [][ (/\ ret.op = "import"
         /\ ret'.op = "import"
         /\ Undecryptable(ret.backupData, ret.password)
         /\ Undecryptable(ret'.backupData, ret'.password))
        => /\ ~ret.result.ok
           /\ ~ret'.result.ok
           /\ ret'.result.value = ret.result.value
      ]_vars

\* the names of the records of a record sequence
NamesOf(keys) == {keys[i].name : i \in 1..Len(keys)}

\* the object a backup text was made of has no record sequence
NoRecordSequence(backupData) ==
    \/ "keys" \notin DOMAIN SealedObject(backupData)
    \/ SealedObject(backupData).keys = NotAnArray

\* C13: an import of a blob whose decrypted object has no keys, or keys that
\* are no array, is rejected with an error; and an import rejected for any
\* reason (that one, or a password that does not open the blob) changes
\* neither the stored envelope nor the vault in memory.
C13_RejectedImportChangesNothing ==
    [][ HandleImportFinish
        => /\ NoRecordSequence(importCall.backupData) => ~ret'.result.ok
           /\ ~ret'.result.ok
                => /\ localStorage' = localStorage
                   /\ vaultData' = vaultData
                   /\ inFlight' = inFlight
      ]_vars

\* C13 witness: a backup without keys was rejected over a vault of two records
C13_Witness ==
    /\ ret.op = "import"
    /\ ~ret.result.ok
    /\ "keys" \notin DOMAIN SealedObject(ret.backupData)
    /\ VaultUsable
    /\ NamesOf(vaultData.keys) = {"A", "B"}
    /\ Persisted

\* C14 as stated: a merge keeps the records of the live vault unchanged and
\* in place and appends exactly the imported records whose name is not the
\* name of a record the live vault holds when the merge is made.
C14_MergeSkipsLiveNames ==
    [][ (HandleImportFinish /\ ret'.result.ok)
        => vaultData'.keys =
             vaultData.keys \o
               SelectSeq(ret'.result.value.keys,
                         LAMBDA k : k.name \notin NamesOf(vaultData.keys))
      ]_vars

\* C15 as stated: after a merge each settings field the backup carries has
\* the backup's value, and each field it does not carry has the value the
\* live vault had.
C15_SettingsOverwriteCarriedFields ==
    [][ (HandleImportFinish /\ ret'.result.ok)
        => LET backup == SealedObject(importCall.backupData)
           IN  \A f \in SettingsFields :
                  vaultData'.settings[f] =
                    IF "settings" \in DOMAIN backup /\ f \in DOMAIN backup.settings
                    THEN backup.settings[f]
                    ELSE vaultData.settings[f]
      ]_vars

\* C15 amended: after a merge each settings field the backup carries has the
\* backup's value, and each field it does not carry has the fixed default
\* (30 s, 15 min, off, off) that importVault filled in: no field keeps the
\* live vault's value.
C15_SettingsOverwriteAllFields ==
    [][ (HandleImportFinish /\ ret'.result.ok)
        => /\ vaultData'.settings = DefaultedSettings(SealedObject(importCall.backupData))
           /\ vaultData'.settings = ret'.result.value.settings
      ]_vars

\* C15 witness: a backup carrying darkMode only was merged into a vault
\* loaded with changed settings: the other three fields hold the defaults
C15_Witness ==
    /\ ret.op = "import"
    /\ ret.result.ok
    /\ DOMAIN SealedObject(ret.backupData).settings = {"darkMode"}
    /\ SealedObject(PersistedText).settings = CustomSettings
    /\ loadPc = "done"
    /\ vaultData.settings =
         [clipboardClearTime |-> 30, autoLockTime |-> 15,
          darkMode |-> TRUE, showKeyPreview |-> FALSE]

\* C17 as stated: a backup made under a password W1 is imported into a
\* session unlocked with another password: importVault is given W1, opens
\* the blob, and its records are merged.
C17_ImportUnderBlobPassword ==
    [][ (HandleImportFinish /\ ~NoRecordSequence(importCall.backupData))
        => /\ ret'.password = SealedPassword(importCall.backupData)
           /\ ret'.result.ok
           /\ NamesOf(SealedObject(importCall.backupData).keys)
                \subseteq NamesOf(vaultData'.keys)
      ]_vars

\* C16: over a persisted vault, importVault applied under the same password
\* to the text exportVault just returned gives the record sequence and the
\* settings loadVaultData gives under that password; and exportVault leaves
\* the store as it is.
C16_ExportImportRoundTrip ==
    [][ /\ (/\ ret.op = "export"
            /\ ret.result.ok
            /\ Persisted
            /\ ret'.op = "import"
            /\ ret'.backupData = ret.result.value
            /\ ret'.password = ret.password)
           => LET loaded == LoadVaultData(PersistedText, ret.password)
              IN  /\ loaded.ok
                  /\ ret'.result.ok
                  /\ ret'.result.value.keys = loaded.value.keys
                  /\ ret'.result.value.settings = loaded.value.settings
        /\ (ret'.op = "export") => localStorage' = localStorage
      ]_vars

\* C16 witness: the export of a stored vault of one record with dark mode on
\* was imported again
C16_Witness ==
    /\ ret.op = "import"
    /\ ret.result.ok
    /\ "exportedAt" \in DOMAIN SealedObject(ret.backupData)
    /\ Persisted
    /\ SealedPassword(PersistedText) = ret.password
    /\ Len(ret.result.value.keys) = 1
    /\ ret.result.value.settings.darkMode

\* a stored text is one complete envelope: the JSON text of an object with
\* exactly the base64 fields data, salt and iv, whose ciphertext carries an
\* intact tag and was made with the key of that salt and with that nonce from
\* the JSON text of a VaultData
CompleteEnvelope(text) ==
    /\ text[1] = "json"
    /\ DOMAIN text[2] = {"data", "salt", "iv"}
    /\ \A f \in {"data", "salt", "iv"} : text[2][f][1] = "b64"
    /\ LET sealed == text[2].data[2]
       IN  /\ sealed.tag
           /\ sealed.key.salt = text[2].salt[2]
           /\ sealed.iv = text[2].iv[2]
           /\ sealed.plaintext[1] = "utf8"
           /\ sealed.plaintext[2][1] = "json"
           /\ DOMAIN sealed.plaintext[2][2] = {"keys", "settings", "version"}

\* C18: the store holds nothing or one complete encrypted envelope, and
\* nothing under the settings key; every write to the store is a clear or
\* the completion of a save in flight, whose envelope opens under the
\* password of that save to the vault it captured; a save captures the
\* vaultData and the masterPassword of the unlocked session at that moment;
\* this holds also for a save that completes after a lock.
C18_StoreHoldsOnlyEnvelopes ==
    /\ [](/\ localStorage[SETTINGS_KEY] = Null
          /\ Persisted => CompleteEnvelope(PersistedText))
    /\ [][ /\ (localStorage' # localStorage)
              => \/ \A k \in StorageKeys : localStorage'[k] = Null
                 \/ \E save \in inFlight :
                      LET loaded == LoadVaultData(localStorage'[STORAGE_KEY], save.password)
                      IN  /\ inFlight' = inFlight \ {save}
                          /\ loaded.ok
                          /\ SameVault(loaded.value, save.data)
           /\ \A save \in inFlight' \ inFlight :
                 /\ isAuthenticated
                 /\ save.data = vaultData
                 /\ save.password = masterPassword
         ]_vars

\* C18 witness: the session was locked while a save was in flight, over a
\* persisted envelope
C18_Witness ==
    /\ ~isAuthenticated
    /\ toast = "Vault Locked"
    /\ inFlight # {}
    /\ Persisted
    /\ CompleteEnvelope(PersistedText)

\* C19: once the effects of a mounted SecureVault have run, the auto-lock
\* timeout is pending exactly when autoLockTime > 0; a pending timeout whose
\* time has run down can fire; when it fires, autoLockTime > 0 and the
\* session ends as lock() ends it: Locked(0), no password and no vault in
\* memory, the store unchanged.  With autoLockTime = 0 it never fires.
C19_AutoLock ==
    /\ []((VaultRendered /\ loadPc \in {"await", "done"})
            => (autoLockTimer <=> vaultData.settings.autoLockTime > 0))
    /\ []((autoLockTimer /\ autoLockProgress) => ENABLED AutoLockFire)
    /\ [][ AutoLockFire
           => /\ vaultData.settings.autoLockTime > 0
              /\ Locked(0)'
              /\ masterPassword' = EmptyString
              /\ authError' = ""
              /\ vaultData' = EmptyVault
              /\ ~autoLockTimer'
              /\ localStorage' = localStorage
         ]_vars
    /\ [][ (vaultData.settings.autoLockTime = 0) => ~AutoLockFire ]_vars

\* C19 witness: the timeout of a vault stored with autoLockTime 15 fired
C19_Witness ==
    /\ ~isAuthenticated
    /\ authMode = "unlock"
    /\ toast = "Vault Locked"
    /\ failedAttempts = 0
    /\ SealedObject(PersistedText).settings.autoLockTime = 15

\* a user activity in the unlocked vault
Activity ==
    \/ \E name \in SessionNames, expirationDate \in AppExpirationDates :
          HandleAddKey(name, expirationDate)
    \/ \E newSettings \in SettingsChoices : HandleUpdateSettings(newSettings)
    \/ \E query \in SearchQueries : HandleSearch(query)
    \/ \E backupData \in ImportedTexts : HandleImportStart(backupData)

\* C20 as stated: every user activity in the unlocked vault cancels the
\* pending auto-lock timeout and starts it anew: after the activity none of
\* the countdown has run down.
C20_ActivityRestartsAutoLock ==
    [][ (Activity /\ autoLockTimer') => ~autoLockProgress' ]_vars

\* C21 as stated: an auto-clear callback empties the clipboard only if the
\* clipboard still holds exactly the text the callback was scheduled for, so
\* text placed on the clipboard later is never overwritten; and a callback
\* whose read or write fails changes nothing but itself.
C21_ClearOnlyOwnText ==
    [][ \A call \in clearCalls :
          /\ (ClearWrite(call) /\ clipboard' # clipboard)
                => (clipboard = call.text /\ clipboard' = "")
          /\ ((ClearRead(call) \/ ClearWrite(call)) /\ clearCalls' = clearCalls \ {call})
                => UNCHANGED <<storeVars, indexVars, toast, vaultVars, copies>>
      ]_vars

\* the latest copyToClipboard call that wrote the clipboard is still
\* counting down
LatestCopyPending ==
    \E call \in clearCalls :
       /\ call.pc = "timer"
       /\ \A other \in clearCalls : other.id <= call.id

\* C23 as stated: at most one auto-lock countdown and at most one
\* clipboard-clear countdown are pending; a clipboard-clear callback does not
\* empty the clipboard while the countdown of a later copy is still running;
\* no auto-lock countdown is pending once the vault is locked.
C23_OneCountdownPerKind ==
    /\ [](Cardinality({call \in clearCalls : call.pc = "timer"}) <= 1)
    /\ [](~VaultRendered => ~autoLockTimer)
    /\ [][ \A call \in clearCalls :
             (ClearWrite(call) /\ clipboard' # clipboard) => ~LatestCopyPending
         ]_vars

\* C22 as stated: at most one save is in flight at a time, and once edits
\* have stopped (no debounce pending, no save in flight) the persisted
\* envelope decrypts under the session's password to the VaultData in memory.
C22_SavesNeverRace ==
    /\ Cardinality(inFlight) <= 1
    /\ (VaultUsable /\ loadPc = "done" /\ ~saveTimer /\ inFlight = {})
          => LET loaded == LoadVaultData(PersistedText, masterPassword)
             IN  loaded.ok /\ SameVault(loaded.value, vaultData)

\* the unlock prompt is shown and takes an ordinary attempt: fewer than two
\* failures, no attempt under way
OrdinaryPrompt ==
    /\ ~VaultRendered
    /\ authMode = "unlock"
    /\ failedAttempts < MaxFailedAttempts
    /\ ~authLoading

\* C24: at the unlock prompt with fewer than two failures, submitting a
\* password shorter than 8 characters changes nothing (no load, same count,
\* same message, same envelope), while submitting any password of 8 or more
\* characters, whatever its character classes, starts an attempt with that
\* password; every unlock attempt under way carries a password of at least
\* 8 characters.
C24_ShortUnlockStopped ==
    /\ [](OrdinaryPrompt
            => \A password \in Passwords :
                  IF Len(password) < MinPasswordLength
                  THEN ~ENABLED <<HandleSubmit(password, password)>>_vars
                  ELSE ENABLED (/\ HandleSubmit(password, password)
                                /\ authCall'.password = password
                                /\ failedAttempts' = failedAttempts
                                /\ localStorage' = localStorage))
    /\ []((authCall # NoCall /\ authCall.authMode = "unlock")
            => Len(authCall.password) >= MinPasswordLength)

\* C24 witness: one failure so far over a persisted vault; a short password
\* is stopped and a long one without digits or symbols is taken
C24_Witness ==
    /\ OrdinaryPrompt
    /\ Persisted
    /\ failedAttempts = 1
    /\ authError = IncorrectMessage(1)
    /\ ~ENABLED <<HandleSubmit(PwAbc, PwAbc)>>_vars
    /\ ENABLED <<HandleSubmit(PwWeakLong, PwWeakLong)>>_vars

\* the vault shown holds a mutation that is neither in the store nor in a
\* save in flight
Unsaved ==
    /\ VaultUsable
    /\ loadPc = "done"
    /\ LET loaded == LoadVaultData(PersistedText, masterPassword)
       IN  ~(loaded.ok /\ SameVault(loaded.value, vaultData))
    /\ ~\E save \in inFlight : save.data = vaultData /\ save.password = masterPassword

\* C25 as stated: a lock, by the button or by auto-lock, never discards a
\* mutation that has not been saved yet: when the vault is locked while it
\* holds one, a save of that VaultData under the session's password is in
\* flight afterwards.
C25_LockKeepsEdits ==
    [][ (LockEvent /\ Unsaved)
        => \E save \in inFlight' :
              save.data = vaultData /\ save.password = masterPassword
      ]_vars

\* C26 as stated: the identifiers of the records in the vault are pairwise
\* distinct; an update replaces exactly one record, which keeps its id, and
\* leaves the others and the order alone; a delete removes exactly one record
\* and keeps the others in order.
C26_DistinctIds ==
    /\ [](\A i, j \in 1..Len(vaultData.keys) :
             (vaultData.keys[i].id = vaultData.keys[j].id) => (i = j))
    /\ [][ \A i \in 1..Len(vaultData.keys) :
             /\ (\E name \in EditedNames : HandleUpdateKey(i, name))
                  => /\ Len(vaultData'.keys) = Len(vaultData.keys)
                     /\ vaultData'.keys[i].id = vaultData.keys[i].id
                     /\ \A j \in 1..Len(vaultData.keys) :
                           (j # i) => (vaultData'.keys[j] = vaultData.keys[j])
             /\ HandleDeleteKey(i)
                  => vaultData'.keys =
                        SubSeq(vaultData.keys, 1, i - 1)
                          \o SubSeq(vaultData.keys, i + 1, Len(vaultData.keys))
         ]_vars

\* C27 as stated: an unlock attempt made with fewer than two failures ends
\* Unlocked only if an envelope is persisted and the password decrypts it;
\* and every persisted envelope is sealed under a password that satisfies
\* the strength policy.
C27_UnlockNeedsEnvelope ==
    /\ [][ (/\ AttemptEnds
            /\ authCall.authMode = "unlock"
            /\ authCall.failedAttempts < MaxFailedAttempts
            /\ isAuthenticated')
           => /\ Persisted
              /\ SealedPassword(PersistedText) = authCall.password
         ]_vars
    /\ [](Persisted => ValidatePasswordStrength(SealedPassword(PersistedText)))

\* the unlocked view has ended in its error state
LoadFailed == VaultRendered /\ loadPc = "done" /\ error # ""

\* C28 as stated: a session whose load failed issues no save: no debounce is
\* pending in the error state and no saveVaultData call starts from it.
C28_NoSaveAfterFailedLoad ==
    /\ [](LoadFailed => ~saveTimer)
    /\ [][ LoadFailed => (inFlight' \subseteq inFlight) ]_vars

\* the session the destructive reset started is still on
ResetSession == VaultRendered /\ toast = "New Vault Created"

\* C29 as stated: after the reset the store never holds an envelope sealed
\* under the old password: during the session the reset started, whatever is
\* persisted is sealed under the new password, and the session's load does
\* not fail.
C29_OldVaultStaysDestroyed ==
    /\ (ResetSession /\ Persisted) => SealedPassword(PersistedText) = masterPassword
    /\ (ResetSession /\ loadPc = "done") => error = ""

\* C30 as stated: the failed-attempt counter is within 0..2 and non-zero only
\* while locked; while locked and the application keeps running it does not
\* decrease except when an attempt unlocks or resets the vault; no
\* handleLock call is delivered while the vault is already locked.
C30_CounterAndLockEvents ==
    /\ [](failedAttempts \in 0..MaxFailedAttempts)
    /\ [](failedAttempts # 0 => ~isAuthenticated)
    /\ [][ (~isAuthenticated /\ failedAttempts' < failedAttempts)
           => \/ AttemptEnds /\ isAuthenticated'
              \/ Reload ]_vars
    /\ [][ LockEvent => isAuthenticated ]_vars

=============================================================================
